---- MODULE Spec2Model ----
(***************************************************************************)
(* Model of the pricing scripts of crypto-options-pricing:                 *)
(*   scripts/heston_model.py   calibration, pricing, post-processing and   *)
(*                             write-back of Heston prices   (Spec)        *)
(*   scripts/black_scholes.py  the Black-Scholes batch pass  (SpecBS)      *)
(*   black_scholes, heston_price, calibration_objective and the loading    *)
(*   of the frame, each as one call                          (SpecPrice)   *)
(*                                                                         *)
(* Floating-point values are fixed-point integers.  A float that may be    *)
(* missing is a record: None (Python None), NaN, Inf, NegInf or Num(x).    *)
(***************************************************************************)
EXTENDS Integers, Sequences, FiniteSets, TLC

VARIABLES
    pc,        \* heston_model.py: position of the script
    df,        \* heston_model.py: the data frame, a sequence of rows
    result,    \* heston_model.py: what minimize returned (success, x)
    params,    \* heston_model.py: the globals kappa, theta, rho, v0
    pricedWith,\* heston_model.py: the parameters line 119 priced the rows with
    db,        \* heston_model.py: the UPDATE statements executed, in order
    bs_pc,     \* black_scholes.py: position of the script
    bs_df,     \* black_scholes.py: the individually modelled rows of the frame
    bs_bulk,   \* black_scholes.py: number of further rows, all equal to BulkQuote
    bs_db,     \* black_scholes.py: instrument names whose price was written
    fn_call,   \* SpecPrice: the call being evaluated
    fn_ret     \* SpecPrice: what it returned

vars == <<pc, df, result, params, pricedWith, db,
          bs_pc, bs_df, bs_bulk, bs_db, fn_call, fn_ret>>
heston_vars == <<pc, df, result, params, pricedWith, db>>
bs_vars == <<bs_pc, bs_df, bs_bulk, bs_db>>
fn_vars == <<fn_call, fn_ret>>

\* ------------------------------------------------------------ bounds
\* rows of the Heston frame
MaxQuotes == 2

\* ------------------------------------------------------------ values
None == [tag |-> "none", v |-> 0]
NaN == [tag |-> "nan", v |-> 0]
Num(x) == [tag |-> "num", v |-> x]
\* float("inf") and float("-inf")
Inf == [tag |-> "inf", v |-> 0]
NegInf == [tag |-> "-inf", v |-> 0]
IsNum(a) == a.tag = "num"

\* fixed-point resolution of rates, discount factors and times: 1/Q
Q == 1000
\* resolution of the integrated probabilities P1, P2: 1/PQ
PQ == 2

\* r_fixed = 0.045 (heston_model.py) and r = 0.045 (black_scholes.py), in 1/Q
r_fixed == 45
r == 45

\* np.exp(-x) for 0 <= x, x in 1/Q: the series 1 - x + x^2/2
ExpNeg(x) == Q - x + ((x * x) \div (2 * Q))

\* np.exp(-r * T), T in 1/Q years
Discount(rate, T) == ExpNeg((rate * T) \div Q)

\* the factor 0.95 = DampNum / DampDen and the quantile 0.975 = QuantNum / QuantDen
DampNum == 19
DampDen == 20
QuantNum == 39
QuantDen == 40

\* Heston prices and market prices are exact rationals with the denominator
\* MoneyScale, a multiple of DampDen: the product with 0.95 is exact.
MoneyScale == DampDen * PQ * Q

\* ------------------------------------------------------------ heston_price
\* max(price, 0) left out: the combination is returned as it is
PyMax0_no_floor(price) == price

\* max(price, 0) with a NaN price replaced by 0 (as np.fmax would)
PyMax0_nan_to_zero(price) ==
    IF (IsNum(price) /\ 0 > price.v) \/ price = NegInf \/ price = NaN THEN Num(0) ELSE price

\* Python's max(price, 0): the first argument stays unless 0 > price, so a NaN
\* price stays NaN.
PyMax0(price) ==
    IF (IsNum(price) /\ 0 > price.v) \/ price = NegInf THEN Num(0) ELSE price

\* the sign of an infinite factor after a multiplication by a negative number
FlipInf(a) == IF a = Inf THEN NegInf ELSE IF a = NegInf THEN Inf ELSE a

\* a - b of two floats, d being the difference when both are finite: NaN spreads,
\* inf - inf is NaN
FloatDiff(a, b, d) ==
    IF a = NaN \/ b = NaN THEN NaN
    ELSE IF IsNum(a) /\ IsNum(b) THEN Num(d)
    ELSE IF IsNum(b) THEN a
    ELSE IF IsNum(a) THEN FlipInf(b)
    ELSE IF a = b THEN NaN
    ELSE a

\* lines 84-87: the combination of the two probabilities (S > 0 and K > 0)
CallCombination(S, K, T, rate, P1, P2) ==
    FloatDiff(P1, P2, DampDen * (S * P1.v * Q - K * Discount(rate, T) * P2.v))

PutCombination(S, K, T, rate, P1, P2) ==
    FloatDiff(FlipInf(P2), FlipInf(P1),
              DampDen * (K * Discount(rate, T) * (PQ - P2.v) - S * Q * (PQ - P1.v)))

\* heston_price, given what the two quad calls of lines 81-82 returned
heston_price(S, K, T, rate, P1, P2, option_type) ==
    IF option_type = "call" THEN PyMax0(CallCombination(S, K, T, rate, P1, P2))
    ELSE IF option_type = "put" THEN PyMax0(PutCombination(S, K, T, rate, P1, P2))
    ELSE None

\* ------------------------------------------------------------ the frame
\* option_type as stored, and row["option_type"].lower().strip()
RawKinds == {"call", "put", " Put", "straddle"}
LowerStrip(s) == IF s = " Put" THEN "put" ELSE s

\* every row of the frame has T > 14/365 and a present market price and
\* implied volatility (lines 55-58); the model's rows share T and spot
QuoteT == Q
QuoteSpot == 2
\* 0.4 * spot < strike < 2.5 * spot (line 58); 3 = 1.5 * spot, 4 = 2 * spot
Strikes == {3, 4}
\* real_market_price, in 1/MoneyScale
MarketPrices == {0, MoneyScale \div 2}

RawRows ==
    [strike_price : Strikes, option_type : RawKinds, real_market_price : MarketPrices]

Row(i, raw) ==
    [instrument_name |-> i,
     spot_price |-> QuoteSpot,
     strike_price |-> raw.strike_price,
     T |-> QuoteT,
     option_type |-> raw.option_type,
     real_market_price |-> raw.real_market_price,
     heston_price |-> None,
     error_heston |-> None]

Frames ==
    UNION {{[i \in 1..n |-> Row(i, f[i])] : f \in [1..n -> RawRows]} : n \in 1..MaxQuotes}

\* what quad returns for P1 and P2 (0.5 + integral / pi): any float, NaN and the
\* infinities included
QuadValues == {Num(-1), Num(0), Num(1), Num(2), Num(3), NaN, Inf, NegInf}
QuadOutcomes == {<<Num(2), Num(1)>>, <<Num(1), Num(2)>>, <<NaN, Num(1)>>, <<Inf, Num(1)>>}

\* ------------------------------------------------------------ calibration
\* lines 99-101 for one row: model_price - market_price with model_price None
\* raises TypeError
ObjectiveTermRaises(row) ==
    /\ row.real_market_price > 0
    /\ \A P \in QuadOutcomes :
         heston_price(row.spot_price, row.strike_price, row.T, r_fixed,
                      P[1], P[2], LowerStrip(row.option_type)) = None

calibration_objective_raises(data) ==
    \E i \in 1..Len(data) : ObjectiveTermRaises(data[i])

\* the TypeError of None - market_price
Raises == [tag |-> "raises", v |-> 0]

\* line 101: ((model_price - market_price) / market_price) ** 2, in 1/Q
ObjectiveTerm(model_price, market_price) ==
    IF model_price = None THEN Raises
    ELSE IF IsNum(model_price)
    THEN LET relative == ((model_price.v - market_price) * Q) \div market_price
         IN Num((relative * relative) \div Q)
    ELSE IF model_price = NaN THEN NaN
    ELSE Inf

\* error += term
FloatAdd(error, term) ==
    IF error = NaN \/ term = NaN THEN NaN
    ELSE IF error = Inf \/ term = Inf THEN Inf
    ELSE Num(error.v + term.v)

\* line 99 for row i; P[i] is what the two quad calls return for it
ObjectiveModelPrice(data, P, i) ==
    heston_price(data[i].spot_price, data[i].strike_price, data[i].T, r_fixed,
                 P[i][1], P[i][2], LowerStrip(data[i].option_type))

\* the loop of lines 96-101 with the test of line 100 written market_price != 0
RECURSIVE ObjectiveLoop_counts_negative(_, _, _, _)
ObjectiveLoop_counts_negative(data, P, i, error) ==
    IF i > Len(data) THEN error
    ELSE IF data[i].real_market_price /= 0
    THEN LET term == ObjectiveTerm(ObjectiveModelPrice(data, P, i),
                                   data[i].real_market_price)
         IN IF term = Raises THEN Raises
            ELSE ObjectiveLoop_counts_negative(data, P, i + 1, FloatAdd(error, term))
    ELSE ObjectiveLoop_counts_negative(data, P, i + 1, error)

calibration_objective_counts_negative(data, P) ==
    ObjectiveLoop_counts_negative(data, P, 1, Num(0))

\* the loop of lines 96-101 from row i on, error being the sum so far
RECURSIVE ObjectiveLoop(_, _, _, _)
ObjectiveLoop(data, P, i, error) ==
    IF i > Len(data) THEN error
    ELSE IF data[i].real_market_price > 0
    THEN LET term == ObjectiveTerm(ObjectiveModelPrice(data, P, i),
                                   data[i].real_market_price)
         IN IF term = Raises THEN Raises
            ELSE ObjectiveLoop(data, P, i + 1, FloatAdd(error, term))
    ELSE ObjectiveLoop(data, P, i + 1, error)

\* lines 93-102, given what quad returns for every row
calibration_objective(data, P) == ObjectiveLoop(data, P, 1, Num(0))

\* parameters in 1/100: (kappa, theta, rho, v0)
initial_guess == <<300, 5, -60, 10>>
default_params == <<200, 4, -70, 4>>
\* line 105, in 1/100: (lower, upper) for kappa, theta, rho, v0
bounds == <<<<100, 500>>, <<2, 20>>, <<-90, -30>>, <<2, 30>>>>

\* a point the line search of L-BFGS-B may step to before the projection
SearchPoints == {<<50, 25, -95, 35>>}

\* the optimizer without the projection on the bounds
Project_nowhere(x) == x

\* L-BFGS-B keeps every iterate inside the bounds by projecting it on them
Project(x) ==
    [k \in 1..4 |->
        IF x[k] < bounds[k][1] THEN bounds[k][1]
        ELSE IF x[k] > bounds[k][2] THEN bounds[k][2]
        ELSE x[k]]

\* what L-BFGS-B may end on (result.x)
OptimizerIterates == {Project(x) : x \in SearchPoints}
NoResult == [success |-> FALSE, x |-> <<>>]

\* line 110 when calibration_objective raises: the script ends with the TypeError
CalibrateRaises ==
    /\ pc = "calibrate"
    /\ calibration_objective_raises(df)
    /\ pc' = "aborted"
    /\ UNCHANGED <<df, result, params, pricedWith, db, bs_vars, fn_vars>>

\* line 110: minimize returns
Calibrate ==
    /\ pc = "calibrate"
    /\ ~calibration_objective_raises(df)
    /\ \E success \in BOOLEAN, x \in OptimizerIterates :
         result' = [success |-> success, x |-> x]
    /\ pc' = "handle_result"
    /\ UNCHANGED <<df, params, pricedWith, db, bs_vars, fn_vars>>

\* lines 112-117 without the test of result.success: result.x is always taken
HandleResult_ignores_success ==
    /\ pc = "handle_result"
    /\ params' = result.x
    /\ pc' = "price"
    /\ UNCHANGED <<df, result, pricedWith, db, bs_vars, fn_vars>>

\* lines 112-117
HandleResult ==
    /\ pc = "handle_result"
    /\ params' = IF result.success THEN result.x ELSE default_params
    /\ pc' = "price"
    /\ UNCHANGED <<df, result, pricedWith, db, bs_vars, fn_vars>>

\* a column assigned from apply: None is stored as NaN
ToColumn(v) == IF v = None THEN NaN ELSE v

\* line 119 for one row; P[i] is what the two quad calls return for row i
PriceRow(row, P) ==
    IF row.real_market_price > 0
    THEN heston_price(row.spot_price, row.strike_price, row.T, r_fixed,
                      P[row.instrument_name][1], P[row.instrument_name][2],
                      row.option_type)
    ELSE None

\* line 119
Price ==
    /\ pc = "price"
    /\ \E P \in [{i \in 1..Len(df) : df[i].real_market_price > 0} -> QuadOutcomes] :
         df' = [i \in 1..Len(df) |->
                  [df[i] EXCEPT !.heston_price = ToColumn(PriceRow(df[i], P))]]
    /\ pricedWith' = params
    /\ pc' = "dampen"
    /\ UNCHANGED <<result, params, db, bs_vars, fn_vars>>

\* ------------------------------------------------------------ post-processing
\* line 123 with >= in place of >
DeepOTM_inclusive(row) == 2 * row.strike_price >= 3 * row.spot_price

\* line 123: strike > 1.5 * spot
DeepOTM(row) == 2 * row.strike_price > 3 * row.spot_price

\* df["heston_price"] * 0.95
Times095(p) ==
    IF IsNum(p) THEN Num((p.v * DampNum) \div DampDen) ELSE IF p = Inf THEN Inf ELSE NaN

\* lines 122-126
DampenRow(row) ==
    [row EXCEPT !.heston_price =
        IF DeepOTM(row) THEN Times095(row.heston_price) ELSE row.heston_price]

Dampen ==
    /\ pc = "dampen"
    /\ df' = [i \in 1..Len(df) |-> DampenRow(df[i])]
    /\ pc' = "error"
    /\ UNCHANGED <<result, params, pricedWith, db, bs_vars, fn_vars>>

Abs(x) == IF x < 0 THEN -x ELSE x

\* line 129
ErrorOf(row) ==
    IF IsNum(row.heston_price)
    THEN Num(Abs(row.heston_price.v - row.real_market_price))
    ELSE IF row.heston_price = Inf THEN Inf
    ELSE NaN

ComputeError ==
    /\ pc = "error"
    /\ df' = [i \in 1..Len(df) |-> [df[i] EXCEPT !.error_heston = ErrorOf(df[i])]]
    /\ pc' = "outliers"
    /\ UNCHANGED <<result, params, pricedWith, db, bs_vars, fn_vars>>

\* the finite values of the error column, sorted ascending
SortedErrors(data) ==
    LET present == SelectSeq(data, LAMBDA row : IsNum(row.error_heston))
        values == [i \in 1..Len(present) |-> present[i].error_heston.v]
    IN SortSeq(values, LAMBDA a, b : a < b)

\* Series.quantile(0.975) of a column whose present values are all finite:
\* linear interpolation, times QuantDen; NaN values are skipped, and the quantile
\* of no values is NaN
Quantile(data) ==
    LET xs == SortedErrors(data)
        n == Len(xs)
        h == QuantNum * (n - 1)
        lo == h \div QuantDen
        frac == h % QuantDen
    IN IF n = 0 THEN NaN
       ELSE IF frac = 0 THEN Num(QuantDen * xs[lo + 1])
       ELSE Num(QuantDen * xs[lo + 1] + frac * (xs[lo + 2] - xs[lo + 1]))

\* the infinite values of the error column
InfiniteErrors(data) == {i \in 1..Len(data) : data[i].error_heston = Inf}

\* Series.quantile(0.975): the infinite errors sort after the finite ones. The
\* interpolation a + (b - a) * t between a finite a and an infinite b is inf or
\* NaN (inf - inf, inf * 0) depending on how the library evaluates it.
Quantiles(data) ==
    LET m == Len(SortedErrors(data))
        n == m + Cardinality(InfiniteErrors(data))
        h == QuantNum * (n - 1)
        lo == h \div QuantDen
        frac == h % QuantDen
    IN IF n = m THEN {Quantile(data)}
       ELSE IF lo + 1 > m THEN {Inf}
       ELSE IF lo + 2 <= m THEN {Quantile(data)}
       ELSE IF frac = 0 THEN {Num(QuantDen * SortedErrors(data)[lo + 1]), NaN}
       ELSE {Inf, NaN}

\* line 130 with error <= quantile in place of error < quantile
BelowQuantile_inclusive(e, q) ==
    \/ IsNum(e) /\ ((IsNum(q) /\ QuantDen * e.v <= q.v) \/ q = Inf)
    \/ e = Inf /\ q = Inf

\* error < quantile; a comparison with NaN is False, and inf < inf is False
BelowQuantile(e, q) == IsNum(e) /\ ((IsNum(q) /\ QuantDen * e.v < q.v) \/ q = Inf)

\* line 130 done row by row, the quantile taken again over the rows still there
RECURSIVE IncrementalFilter(_, _)
IncrementalFilter(data, i) ==
    IF i > Len(data) THEN data
    ELSE LET q == CHOOSE x \in Quantiles(data) : TRUE
         IN IF BelowQuantile(data[i].error_heston, q)
            THEN IncrementalFilter(data, i + 1)
            ELSE IncrementalFilter(SubSeq(data, 1, i - 1) \o SubSeq(data, i + 1, Len(data)), i)

FilterOutliers_incremental ==
    /\ pc = "outliers"
    /\ df' = IncrementalFilter(df, 1)
    /\ pc' = "dropna"
    /\ UNCHANGED <<result, params, pricedWith, db, bs_vars, fn_vars>>

\* line 130
FilterOutliers ==
    /\ pc = "outliers"
    /\ \E q \in Quantiles(df) :
         df' = SelectSeq(df, LAMBDA row : BelowQuantile(row.error_heston, q))
    /\ pc' = "dropna"
    /\ UNCHANGED <<result, params, pricedWith, db, bs_vars, fn_vars>>

\* line 133: dropna drops NaN, not the infinities
DropNa ==
    /\ pc = "dropna"
    /\ df' = SelectSeq(df, LAMBDA row : row.heston_price /= NaN)
    /\ pc' = "update"
    /\ UNCHANGED <<result, params, pricedWith, db, bs_vars, fn_vars>>

\* lines 136-143: one UPDATE per row, then the commit
UpdateDb ==
    /\ pc = "update"
    /\ db' = [i \in 1..Len(df) |->
                [instrument_name |-> df[i].instrument_name,
                 heston_price |-> df[i].heston_price]]
    /\ pc' = "done"
    /\ UNCHANGED <<df, result, params, pricedWith, bs_vars, fn_vars>>

\* ------------------------------------------------------------ black_scholes
\* np.sqrt(T) in 1/Q, T in 1/Q
RECURSIVE SqrtBetween(_, _, _)
SqrtBetween(n, lo, hi) ==
    IF lo = hi THEN lo
    ELSE LET mid == (lo + hi + 1) \div 2
         IN IF mid * mid <= n THEN SqrtBetween(n, mid, hi) ELSE SqrtBetween(n, lo, mid - 1)
Sqrt(T) == SqrtBetween(T * Q, 0, T + Q)

\* np.log(S / K) in 1/Q, for the spot and strike values of the model (1 to 9)
LnNat == <<0, 693, 1099, 1386, 1609, 1792, 1946, 2079, 2197>>
Log(S, K) == LnNat[S] - LnNat[K]

\* norm.cdf in 1/Q at 0.0, 0.1, ..., 3.3; 1 beyond
CdfTable ==
    <<500, 540, 579, 618, 655, 691, 726, 758, 788, 816,
      841, 864, 885, 903, 919, 933, 945, 955, 964, 971,
      977, 982, 986, 989, 992, 994, 995, 997, 997, 998,
      999, 999, 999, 1000>>
CdfHalf(x) == CdfTable[(IF x \div 100 < Len(CdfTable) THEN x \div 100 ELSE Len(CdfTable) - 1) + 1]
norm_cdf(x) == IF x >= 0 THEN CdfHalf(x) ELSE Q - CdfHalf(-x)

\* the put floor Phi(-d2) < 0.01, in 1/Q
PutFloor == 10

\* line 41: sigma * np.sqrt(T); a product below the resolution evaluates to zero
SigmaSqrtT(sigma, T) == (sigma * Sqrt(T)) \div Q

\* line 46, given sigma_sqrt_T
D1(S, K, T, rate, sigma, sigma_sqrt_T) ==
    ((Log(S, K) + ((rate + ((sigma * sigma) \div (2 * Q))) * T) \div Q) * Q)
        \div sigma_sqrt_T

\* lines 47-60 without the put floor of lines 49-50
bs_formula_no_floor(S, K, T, rate, sigma_sqrt_T, d1, option_type) ==
    LET d2 == d1 - sigma_sqrt_T
        discounted == K * Discount(rate, T)
    IN IF option_type = "call"
       THEN Num(S * norm_cdf(d1) - (discounted * norm_cdf(d2)) \div Q)
       ELSE IF option_type = "put"
       THEN Num((discounted * norm_cdf(-d2)) \div Q - S * norm_cdf(-d1))
       ELSE None

\* lines 47-60, prices in 1/Q
bs_formula(S, K, T, rate, sigma_sqrt_T, d1, option_type) ==
    LET d2 == d1 - sigma_sqrt_T
        discounted == K * Discount(rate, T)
    IN IF option_type = "put" /\ norm_cdf(-d2) < PutFloor THEN Num(0)
       ELSE IF option_type = "call"
       THEN Num(S * norm_cdf(d1) - (discounted * norm_cdf(d2)) \div Q)
       ELSE IF option_type = "put"
       THEN Num((discounted * norm_cdf(-d2)) \div Q - S * norm_cdf(-d1))
       ELSE None

\* a division by a float zero: plus or minus infinity (norm_cdf saturates)
Infinity == 100 * Q

\* black_scholes with the guard of line 43 written < instead of <=
black_scholes_strict_guard(S, K, T, rate, sigma, option_type) ==
    IF S <= 0 \/ K <= 0 \/ T <= 0 \/ sigma <= 0 THEN None
    ELSE LET sigma_sqrt_T == SigmaSqrtT(sigma, T)
         IN IF sigma_sqrt_T < 0 THEN None
            ELSE IF sigma_sqrt_T = 0
            THEN bs_formula(S, K, T, rate, sigma_sqrt_T,
                            IF S >= K THEN Infinity ELSE -Infinity, option_type)
            ELSE bs_formula(S, K, T, rate, sigma_sqrt_T,
                            D1(S, K, T, rate, sigma, sigma_sqrt_T), option_type)

\* black_scholes with the put floor of line 50 applied whatever the kind
black_scholes_floor_any(S, K, T, rate, sigma, option_type) ==
    IF S <= 0 \/ K <= 0 \/ T <= 0 \/ sigma <= 0 THEN None
    ELSE LET sigma_sqrt_T == SigmaSqrtT(sigma, T)
             d1 == D1(S, K, T, rate, sigma, sigma_sqrt_T)
         IN IF sigma_sqrt_T <= 0 THEN None
            ELSE IF norm_cdf(sigma_sqrt_T - d1) < PutFloor THEN Num(0)
            ELSE bs_formula(S, K, T, rate, sigma_sqrt_T, d1, option_type)

\* lines 34-62; no step of the body raises on numbers, and `except Exception`
\* turns any exception into None
black_scholes(S, K, T, rate, sigma, option_type) ==
    IF S <= 0 \/ K <= 0 \/ T <= 0 \/ sigma <= 0 THEN None
    ELSE LET sigma_sqrt_T == SigmaSqrtT(sigma, T)
         IN IF sigma_sqrt_T <= 0 THEN None
            ELSE bs_formula(S, K, T, rate, sigma_sqrt_T,
                            D1(S, K, T, rate, sigma, sigma_sqrt_T), option_type)

\* ------------------------------------------------------------ black_scholes.py
\* rows of the Black-Scholes frame modelled one by one, and further rows
MaxBSQuotes == 2
MaxBulk == 100
\* df.sample(100)
SampleSize == 100

\* the frame at line 98: every row has time_to_expiry > 14/365 and
\* strike < 1.5 * spot; the model's rows share spot, time and volatility
BSRawRows == [strike_price : {-1, 0, 2}, option_type : {"call", "put", "straddle"}]

BSRow(i, raw) ==
    [instrument_name |-> i,
     spot_price |-> QuoteSpot,
     strike_price |-> raw.strike_price,
     time_to_expiry |-> QuoteT,
     sigma |-> 400,
     option_type |-> raw.option_type,
     black_scholes_price |-> None]

\* the further rows are all this one
BulkQuote == BSRow(0, [strike_price |-> 2, option_type |-> "call"])

BSFrames ==
    UNION {{[i \in 1..n |-> BSRow(i, f[i])] : f \in [1..n -> BSRawRows]} : n \in 0..MaxBSQuotes}

\* lines 99-100 for one row
BSPriceRow(row) ==
    black_scholes(row.spot_price, row.strike_price, row.time_to_expiry, r,
                  row.sigma, row.option_type)

\* len(df)
BSLen == Len(bs_df) + bs_bulk

\* lines 99-101: the column is float (None stored as NaN) unless every value is None
BSPrice ==
    /\ bs_pc = "price"
    /\ LET prices == [i \in 1..Len(bs_df) |-> BSPriceRow(bs_df[i])]
           allNone == (bs_bulk = 0 \/ BSPriceRow(BulkQuote) = None)
                      /\ \A i \in 1..Len(bs_df) : prices[i] = None
       IN bs_df' = [i \in 1..Len(bs_df) |->
                      [bs_df[i] EXCEPT !.black_scholes_price =
                          IF allNone THEN None ELSE ToColumn(prices[i])]]
    /\ bs_pc' = "sample"
    /\ UNCHANGED <<bs_bulk, bs_db, heston_vars, fn_vars>>

\* line 104: df.sample(100) of fewer than 100 rows raises ValueError
BSSampleRaises ==
    /\ bs_pc = "sample"
    /\ BSLen < SampleSize
    /\ bs_pc' = "aborted"
    /\ UNCHANGED <<bs_df, bs_bulk, bs_db, heston_vars, fn_vars>>

ZeroStrikeRows == {i \in 1..Len(bs_df) : bs_df[i].strike_price = 0}

\* lines 104-113: the sample holds a row of strike 0, and S / K raises
\* ZeroDivisionError
BSLogRaises ==
    /\ bs_pc = "sample"
    /\ BSLen >= SampleSize
    /\ ZeroStrikeRows /= {}
    /\ bs_pc' = "aborted"
    /\ UNCHANGED <<bs_df, bs_bulk, bs_db, heston_vars, fn_vars>>

\* lines 104-124: the sample holds no row of strike 0, and the log is written
BSLog ==
    /\ bs_pc = "sample"
    /\ BSLen >= SampleSize
    /\ BSLen - Cardinality(ZeroStrikeRows) >= SampleSize
    /\ bs_pc' = "update"
    /\ UNCHANGED <<bs_df, bs_bulk, bs_db, heston_vars, fn_vars>>

\* lines 127-140: np.isnan(None) raises TypeError; a NaN price is skipped
BSUpdate ==
    /\ bs_pc = "update"
    /\ IF \E i \in 1..Len(bs_df) : bs_df[i].black_scholes_price = None
       THEN bs_pc' = "aborted" /\ UNCHANGED bs_db
       ELSE /\ bs_db' = [rows |-> {bs_df[i].instrument_name :
                                     i \in {j \in 1..Len(bs_df) :
                                              IsNum(bs_df[j].black_scholes_price)}},
                         bulk |-> IF IsNum(BSPriceRow(BulkQuote)) THEN bs_bulk ELSE 0]
            /\ bs_pc' = "done"
    /\ UNCHANGED <<bs_df, bs_bulk, heston_vars, fn_vars>>

NothingWritten == [rows |-> {}, bulk |-> 0]

BSInit ==
    /\ bs_pc = "price"
    /\ bs_df \in BSFrames
    /\ bs_bulk \in 0..MaxBulk
    /\ BSLen >= 1
    /\ bs_db = NothingWritten

BSNext ==
    \/ BSPrice
    \/ BSSampleRaises
    \/ BSLogRaises
    \/ BSLog
    \/ BSUpdate

\* ------------------------------------------------------------ the pricers alone
Pending == [tag |-> "pending", v |-> 0]

BSCalls ==
    [fn : {"black_scholes"}, S : {-1, 0, 1, 3, 9}, K : {-1, 0, 1, 3}, T : {-Q, 0, 1, Q},
     sigma : {-1, 0, 1, 400}, option_type : RawKinds]

\* ier is the status of the two quad calls: 0 when both converged, 1 when the
\* limit of 300 subdivisions was reached (quad then warns and returns its estimate)
HestonCalls ==
    [fn : {"heston_price"}, S : {QuoteSpot}, K : Strikes, T : {QuoteT},
     P1 : QuadValues, P2 : QuadValues, ier : {0, 1}, option_type : RawKinds]

\* the frames calibration_objective is called on: market prices of any sign, and
\* the empty frame
ObjectiveRows ==
    [strike_price : {3}, option_type : {"call", " Put", "straddle"},
     real_market_price : {-(MoneyScale \div 2), 0, MoneyScale \div 2}]

ObjectiveFrames ==
    UNION {{[i \in 1..n |-> Row(i, f[i])] : f \in [1..n -> ObjectiveRows]} : n \in 0..MaxQuotes}

\* what quad returns for a row of the frame: finite, NaN or infinite
ObjectiveQuadOutcomes == {<<Num(2), Num(1)>>, <<NaN, Num(1)>>, <<Inf, Num(1)>>}

ObjectiveCalls ==
    UNION {{[fn |-> "calibration_objective", data |-> data, P |-> P] :
              P \in [1..Len(data) -> ObjectiveQuadOutcomes]} : data \in ObjectiveFrames}

\* days in a year, and the 14 days of line 55
YearDays == 365
MinDays == 14
\* expiration_date as stored and pd.Timestamp.now(), in days
ExpirationDates == {20, 30}
ClockReadings == {0, 10}

StoredQuotes ==
    UNION {[1..n -> [expiration_date : ExpirationDates]] : n \in 1..MaxQuotes}

LoadCalls == [fn : {"load"}, stored : StoredQuotes, now : ClockReadings]

\* lines 52-55: T in 1/Q years from the clock reading, then T > 14 / 365
TimeToExpiry(expiration_date, now) == ((expiration_date - now) * Q) \div YearDays

LoadFrame(stored, now) ==
    SelectSeq([i \in 1..Len(stored) |->
                 [instrument_name |-> i,
                  T |-> TimeToExpiry(stored[i].expiration_date, now)]],
              LAMBDA row : row.T > (MinDays * Q) \div YearDays)

Frame(rows) == [tag |-> "frame", v |-> 0, rows |-> rows]

EvalBlackScholes ==
    /\ fn_call.fn = "black_scholes"
    /\ fn_ret = Pending
    /\ fn_ret' = black_scholes(fn_call.S, fn_call.K, fn_call.T, r, fn_call.sigma,
                               fn_call.option_type)
    /\ UNCHANGED <<fn_call, heston_vars, bs_vars>>

\* lines 81-82 take element [0] of what quad returns: its status is not read
EvalHestonPrice ==
    /\ fn_call.fn = "heston_price"
    /\ fn_ret = Pending
    /\ fn_ret' = heston_price(fn_call.S, fn_call.K, fn_call.T, r_fixed, fn_call.P1,
                              fn_call.P2, fn_call.option_type)
    /\ UNCHANGED <<fn_call, heston_vars, bs_vars>>

EvalObjective ==
    /\ fn_call.fn = "calibration_objective"
    /\ fn_ret = Pending
    /\ fn_ret' = calibration_objective(fn_call.data, fn_call.P)
    /\ UNCHANGED <<fn_call, heston_vars, bs_vars>>

\* lines 46-58 of one run: the frame that is calibrated and priced
EvalLoad ==
    /\ fn_call.fn = "load"
    /\ fn_ret = Pending
    /\ fn_ret' = Frame(LoadFrame(fn_call.stored, fn_call.now))
    /\ UNCHANGED <<fn_call, heston_vars, bs_vars>>

FnInit ==
    /\ fn_call \in BSCalls \cup HestonCalls \cup ObjectiveCalls \cup LoadCalls
    /\ fn_ret = Pending

FnNext ==
    \/ EvalBlackScholes
    \/ EvalHestonPrice
    \/ EvalObjective
    \/ EvalLoad

HestonInit ==
    /\ pc = "calibrate"
    /\ df \in Frames
    /\ result = NoResult
    /\ params = <<>>
    /\ pricedWith = <<>>
    /\ db = <<>>

HestonIdle ==
    /\ pc = "off"
    /\ df = <<>>
    /\ result = NoResult
    /\ params = <<>>
    /\ pricedWith = <<>>
    /\ db = <<>>

BSIdle ==
    /\ bs_pc = "off"
    /\ bs_df = <<>>
    /\ bs_bulk = 0
    /\ bs_db = NothingWritten

FnIdle ==
    /\ fn_call = [fn |-> "none"]
    /\ fn_ret = None

Init == HestonInit /\ BSIdle /\ FnIdle

Next ==
    \/ CalibrateRaises
    \/ Calibrate
    \/ HandleResult
    \/ Price
    \/ Dampen
    \/ ComputeError
    \/ FilterOutliers
    \/ DropNa
    \/ UpdateDb

Spec == Init /\ [][Next]_vars

\* black_scholes.py alone
InitBS == HestonIdle /\ BSInit /\ FnIdle
SpecBS == InitBS /\ [][BSNext]_vars

\* one call of black_scholes, heston_price or calibration_objective, or one
\* loading of the frame
InitPrice == HestonIdle /\ BSIdle /\ FnInit
SpecPrice == InitPrice /\ [][FnNext]_vars

\* ------------------------------------------------------------ the claims
IsKind(option_type) == option_type \in {"call", "put"}
RowsOf(data) == {data[i] : i \in 1..Len(data)}
Names(data) == {data[i].instrument_name : i \in 1..Len(data)}
RowNamed(data, name) == CHOOSE row \in RowsOf(data) : row.instrument_name = name

\* C1: the percentile rule keeps at least ceil(0.975 * N) of the N quotes that
\* have an error, i.e. QuantDen * kept >= QuantNum * N.
C1_KeepsAtLeast975 ==
    [][pc = "outliers" =>
         QuantDen * Len(df') >=
           QuantNum * Cardinality({i \in 1..Len(df) : IsNum(df[i].error_heston)})]_vars

\* C2: a quote for which heston_price yields no price never aborts the pass:
\* the script never ends with an exception.
C2_PerQuoteFailureDoesNotAbort == pc /= "aborted"

\* the rows black_scholes has no price for: non-positive strike or unrecognized kind
C3_InvalidRows ==
    {i \in 1..Len(bs_df) : bs_df[i].strike_price <= 0 \/ ~IsKind(bs_df[i].option_type)}

\* C3: the Black-Scholes pass over N quotes of which k are invalid (non-positive
\* strike, unrecognized kind) never aborts, and when it is done exactly N - k
\* prices have been written.
C3_BatchCompletes ==
    /\ bs_pc /= "aborted"
    /\ (bs_pc = "done") =>
         (Cardinality(bs_db.rows) + bs_db.bulk = BSLen - Cardinality(C3_InvalidRows))

\* C4: black_scholes returns None whenever S <= 0 or K <= 0 or T <= 0 or
\* sigma <= 0 or sigma * sqrt(T) evaluates to zero, whatever the kind.
C4_InvalidInputsGiveNone ==
    (/\ fn_call.fn = "black_scholes"
     /\ fn_ret /= Pending
     /\ \/ fn_call.S <= 0
        \/ fn_call.K <= 0
        \/ fn_call.T <= 0
        \/ fn_call.sigma <= 0
        \/ (fn_call.sigma * Sqrt(fn_call.T)) \div Q = 0)
    => fn_ret = None

\* C4's case: positive inputs whose product sigma * sqrt(T) evaluates to zero
C4_Witness ==
    /\ fn_call.fn = "black_scholes"
    /\ fn_ret = None
    /\ fn_call.S > 0 /\ fn_call.K > 0 /\ fn_call.T > 0 /\ fn_call.sigma > 0
    /\ (fn_call.sigma * Sqrt(fn_call.T)) \div Q = 0
    /\ IsKind(fn_call.option_type)

\* C5: for a kind other than "call" and "put", black_scholes and heston_price
\* return None, never a number, whatever the numeric inputs.
C5_UnrecognizedKindGivesNone ==
    (fn_call.fn \in {"black_scholes", "heston_price"}
     /\ fn_ret /= Pending
     /\ ~IsKind(fn_call.option_type))
    => fn_ret = None

\* C5's case: valid inputs deep in the put-floor region, and a kind that is not
\* exactly "put"
C5_Witness ==
    /\ fn_call.fn = "black_scholes"
    /\ fn_ret = None
    /\ fn_call.S = 3 /\ fn_call.K = 1 /\ fn_call.T = Q /\ fn_call.sigma = 400
    /\ fn_call.option_type = " Put"

\* the combination formula of the call under evaluation, P1 and P2 numeric
C6_Combination ==
    LET discounted == fn_call.K * Discount(r_fixed, fn_call.T)
    IN IF fn_call.option_type = "call"
       THEN DampDen * (fn_call.S * Q * fn_call.P1.v - discounted * fn_call.P2.v)
       ELSE DampDen * (discounted * (PQ - fn_call.P2.v) - fn_call.S * Q * (PQ - fn_call.P1.v))
\* C6: for kind call or put, heston_price never returns a negative price (nor
\* None): with numeric P1 and P2 it returns the combination formula's value when
\* that is >= 0 and 0 otherwise.
C6_PriceFlooredAtZero ==
    (fn_call.fn = "heston_price" /\ fn_ret /= Pending /\ IsKind(fn_call.option_type))
    => (/\ fn_ret /= None
        /\ (IsNum(fn_ret) => fn_ret.v >= 0)
        /\ ((IsNum(fn_call.P1) /\ IsNum(fn_call.P2)) =>
             fn_ret = Num(IF C6_Combination >= 0 THEN C6_Combination ELSE 0)))

\* C6's case: the combination is negative and the price returned is 0
C6_Witness ==
    /\ fn_call.fn = "heston_price"
    /\ IsKind(fn_call.option_type)
    /\ IsNum(fn_call.P1) /\ IsNum(fn_call.P2)
    /\ C6_Combination < 0
    /\ fn_ret = Num(0)

\* C7: the outlier rule keeps a quote whose error is equal to or below the
\* 97.5th percentile of the errors and drops a quote whose error is above it.
C7_DropsExactlyAbovePercentile ==
    [][pc = "outliers" =>
         \A i \in 1..Len(df) :
            IsNum(df[i].error_heston) =>
               (df[i].instrument_name \in Names(df')
                  <=> QuantDen * df[i].error_heston.v <= Quantile(df).v)]_vars

\* the two halves of C8: the step itself, and the steps after it
C8_AdjustmentStep ==
    (pc = "dampen") =>
       (/\ Len(df') = Len(df)
        /\ \A i \in 1..Len(df) :
             LET pre == df[i].heston_price
                 post == df'[i].heston_price
             IN IF 2 * df[i].strike_price > 3 * df[i].spot_price
                THEN /\ (IsNum(pre) <=> IsNum(post))
                     /\ (IsNum(pre) => (100 * post.v = 95 * pre.v))
                ELSE post = pre)
C8_NoLaterChange ==
    (pc \in {"error", "outliers", "dropna", "update"}) =>
       (\A name \in Names(df') :
           /\ name \in Names(df)
           /\ RowNamed(df', name).heston_price = RowNamed(df, name).heston_price)
\* C8: the adjustment step multiplies the Heston price of every quote with
\* strike > 1.5 * spot by exactly 0.95 and leaves every other price as it was,
\* and no later step of the pass changes a price again.
C8_DampenedOnce == [][C8_AdjustmentStep /\ C8_NoLaterChange]_vars

\* C8's case: after the adjustment, a dampened positive price of a quote with
\* strike = 2 * spot beside a positive price of a quote with strike = 1.5 * spot
C8_Witness ==
    /\ pc = "error"
    /\ \E i, j \in 1..Len(df) :
         /\ df[i].strike_price = 2 * df[i].spot_price
         /\ IsNum(df[i].heston_price) /\ df[i].heston_price.v > 0
         /\ 2 * df[j].strike_price = 3 * df[j].spot_price
         /\ IsNum(df[j].heston_price) /\ df[j].heston_price.v > 0

\* C9: the parameters every quote is priced with are the optimizer's result
\* when it reports success, and the fixed default set (2.0, 0.04, -0.7, 0.04)
\* when it does not.
C9_ParametersByPath ==
    pricedWith /= <<>> =>
       IF result.success THEN pricedWith = result.x
       ELSE pricedWith = <<200, 4, -70, 4>>

\* C9's case: a pass whose optimizer did not converge has priced and written
\* a quote
C9_Witness ==
    /\ pc = "done"
    /\ ~result.success
    /\ pricedWith = <<200, 4, -70, 4>>
    /\ pricedWith /= result.x
    /\ db /= <<>>

\* C10: what the pass hands downstream (the rows it writes) carries a flag
\* telling whether the parameters were optimized or the default fallback.
C10_ResultCarriesPathFlag ==
    pc = "done" => \A i \in 1..Len(db) : "calibration_path" \in DOMAIN db[i]

\* the quotes of the frame under evaluation whose market price is positive
C11_Positive == {i \in 1..Len(fn_call.data) : fn_call.data[i].real_market_price > 0}
C11_ModelPrice(i) == ObjectiveModelPrice(fn_call.data, fn_call.P, i)
C11_Square(i) ==
    LET market_price == fn_call.data[i].real_market_price
        relative == ((C11_ModelPrice(i).v - market_price) * Q) \div market_price
    IN (relative * relative) \div Q
RECURSIVE C11_SumOver(_)
C11_SumOver(quotes) ==
    IF quotes = {} THEN 0
    ELSE LET i == CHOOSE j \in quotes : TRUE
         IN C11_Square(i) + C11_SumOver(quotes \ {i})
\* C11: calibration_objective returns the sum, over exactly the quotes with
\* market price > 0, of ((model price - market price) / market price)^2; a quote
\* with market price <= 0 contributes nothing whatever its kind or its
\* integrals, and the objective of a frame with no positive market price is 0.
C11_ObjectiveIsSumOverPositive ==
    (fn_call.fn = "calibration_objective" /\ fn_ret /= Pending) =>
       (/\ (C11_Positive = {}) => (fn_ret = Num(0))
        /\ (\A i \in C11_Positive : IsNum(C11_ModelPrice(i))) =>
              (fn_ret = Num(C11_SumOver(C11_Positive))))

\* C11's case: a positive objective of two quotes of which one has a negative
\* market price and no model price
C11_Witness ==
    /\ fn_call.fn = "calibration_objective"
    /\ Len(fn_call.data) = 2
    /\ \E i \in 1..2 :
         /\ fn_call.data[i].real_market_price < 0
         /\ fn_call.data[i].option_type = "straddle"
    /\ C11_Positive /= {}
    /\ IsNum(fn_ret) /\ fn_ret.v > 0

\* C12: every quote left after the post-processing pass, and every quote
\* written back, has a Heston price that is present and finite: no None, NaN or
\* infinite price survives.
C12_SurvivorsHaveFinitePrice ==
    /\ (pc \in {"update", "done"}) => (\A i \in 1..Len(df) : IsNum(df[i].heston_price))
    /\ \A i \in 1..Len(db) : IsNum(db[i].heston_price)

\* C12's case: of two quotes the first was dropped and the second was written
\* with its finite price
C12_Witness ==
    /\ pc = "done"
    /\ Len(db) = 1
    /\ db[1].instrument_name = 2
    /\ IsNum(db[1].heston_price)

\* C13: when an integration inside heston_price did not converge (ier /= 0),
\* the caller gets a distinguishable outcome, never an ordinary price: the
\* value returned is not a number.
C13_NonConvergenceReported ==
    (fn_call.fn = "heston_price" /\ fn_ret /= Pending /\ fn_call.ier /= 0)
    => ~IsNum(fn_ret)

\* the combination of lines 85 / 87 is NaN: an integral is NaN, or both are
\* infinite with the same sign (inf - inf)
C14_CombinedNaN ==
    \/ fn_call.P1 = NaN
    \/ fn_call.P2 = NaN
    \/ fn_call.P1 \in {Inf, NegInf} /\ fn_call.P2 = fn_call.P1
\* the quotes of the frame under evaluation with a positive market price, a
\* kind calibration reads as call or put, and a NaN integral
C14_NaNQuotes ==
    {i \in C11_Positive :
        /\ IsKind(LowerStrip(fn_call.data[i].option_type))
        /\ (fn_call.P[i][1] = NaN \/ fn_call.P[i][2] = NaN)}
\* C14: for kind call or put, heston_price returns NaN when the combined price
\* is NaN (not 0, not a finite number), and calibration_objective over a frame
\* holding such a quote with positive market price never returns a finite
\* value: it returns NaN (or does not return at all, when another quote makes
\* it raise).
C14_NaNPropagates ==
    /\ (fn_call.fn = "heston_price" /\ fn_ret /= Pending
          /\ IsKind(fn_call.option_type) /\ C14_CombinedNaN)
       => (fn_ret = NaN)
    /\ (fn_call.fn = "calibration_objective" /\ fn_ret /= Pending
          /\ C14_NaNQuotes /= {})
       => (fn_ret \in {NaN, Raises})

\* C14's case: the objective of two quotes with positive market price, one
\* with a NaN integral and one with a finite model price, is NaN
C14_Witness ==
    /\ fn_call.fn = "calibration_objective"
    /\ C14_NaNQuotes /= {}
    /\ \E i \in C11_Positive : IsNum(C11_ModelPrice(i))
    /\ fn_ret = NaN

\* C15: a run started from the same stored quotes calibrates and prices the
\* same frame (the same quotes with the same T) whatever else differs between
\* two runs: the frame a run works on is the one every other clock reading
\* gives as well.
C15_SameDataSameRun ==
    (fn_call.fn = "load" /\ fn_ret /= Pending)
    => \A now \in ClockReadings : fn_ret = Frame(LoadFrame(fn_call.stored, now))

\* C16: the outlier step takes one threshold, the percentile of the absolute
\* errors of all quotes of the set as they are after the dampening and before
\* any quote is dropped, and keeps exactly the quotes whose error is below
\* that one threshold.
C16_ThresholdComputedOnce ==
    [][pc = "outliers" =>
         /\ \A i \in 1..Len(df) : df[i].error_heston = ErrorOf(df[i])
         /\ \E q \in Quantiles(df) :
              \A i \in 1..Len(df) :
                 (df[i].instrument_name \in Names(df'))
                    <=> BelowQuantile(df[i].error_heston, q)]_vars

\* C16's case: of two quotes the first was dropped and the second was kept,
\* its error being below the percentile of both errors
C16_Witness ==
    /\ pc = "dropna"
    /\ Len(df) = 1
    /\ df[1].instrument_name = 2
    /\ IsNum(df[1].error_heston)

\* the inputs of the black_scholes call under evaluation are valid
C17_ValidInputs ==
    /\ fn_call.S > 0 /\ fn_call.K > 0 /\ fn_call.T > 0 /\ fn_call.sigma > 0
    /\ SigmaSqrtT(fn_call.sigma, fn_call.T) > 0
\* the put price black_scholes returns for the inputs of the call under evaluation
C17_Put ==
    black_scholes(fn_call.S, fn_call.K, fn_call.T, r, fn_call.sigma, "put")
\* S - K * exp(-r * T), in 1/Q
C17_Forward == fn_call.S * Q - (fn_call.K * Discount(r, fn_call.T))
\* C17: for valid inputs the call price minus the put price that black_scholes
\* returns for the same inputs is S - K * exp(-r * T), up to the rounding of
\* the two discounted terms (one unit of 1/Q), the puts whose in-the-money
\* probability is below 1% included.
C17_PutCallParity ==
    (fn_call.fn = "black_scholes" /\ fn_ret /= Pending
      /\ fn_call.option_type = "call" /\ C17_ValidInputs)
    => (/\ IsNum(fn_ret)
        /\ IsNum(C17_Put)
        /\ Abs((fn_ret.v - C17_Put.v) - C17_Forward) <= 1)

\* d1, d2 and the two closed forms for the inputs of the call under evaluation
C18_d1 ==
    D1(fn_call.S, fn_call.K, fn_call.T, r, fn_call.sigma,
       SigmaSqrtT(fn_call.sigma, fn_call.T))
C18_d2 == C18_d1 - SigmaSqrtT(fn_call.sigma, fn_call.T)
C18_ClosedFormPut ==
    (fn_call.K * Discount(r, fn_call.T) * norm_cdf(-C18_d2)) \div Q
       - fn_call.S * norm_cdf(-C18_d1)
C18_ClosedFormCall ==
    fn_call.S * norm_cdf(C18_d1)
       - (fn_call.K * Discount(r, fn_call.T) * norm_cdf(C18_d2)) \div Q
\* C18: for valid inputs black_scholes prices a put with Phi(-d2) < 0.01 at
\* exactly 0 and a put with Phi(-d2) >= 0.01 by the closed-form put formula; a
\* call gets the closed-form call price whatever Phi(-d2) is.
C18_PutFloorRule ==
    (fn_call.fn = "black_scholes" /\ fn_ret /= Pending /\ C17_ValidInputs)
    => (/\ (fn_call.option_type = "put" /\ norm_cdf(-C18_d2) < PutFloor)
              => (fn_ret = Num(0))
        /\ (fn_call.option_type = "put" /\ norm_cdf(-C18_d2) >= PutFloor)
              => (fn_ret = Num(C18_ClosedFormPut))
        /\ (fn_call.option_type = "call") => (fn_ret = Num(C18_ClosedFormCall)))

\* C18's case: a put priced at 0 by the floor although its closed form is positive
C18_Witness ==
    /\ fn_call.fn = "black_scholes"
    /\ fn_call.option_type = "put"
    /\ C17_ValidInputs
    /\ norm_cdf(-C18_d2) < PutFloor
    /\ C18_ClosedFormPut > 0
    /\ fn_ret = Num(0)

\* C19: once the quotes are priced, every quote that contributed a term to
\* calibration_objective as a call or a put (positive market price, kind read
\* as call or put after lower() and strip()) was priced as that kind too: the
\* pricing step gives it a price, not None, whatever the integrals are.
C19_SameKindInBothSteps ==
    (pc = "dampen") =>
       \A i \in 1..Len(df) :
          (df[i].real_market_price > 0 /\ IsKind(LowerStrip(df[i].option_type)))
          => \A P \in QuadOutcomes :
                PriceRow(df[i], [n \in {df[i].instrument_name} |-> P]) /= None

\* kappa in [1, 5], theta in [0.02, 0.2], rho in [-0.9, -0.3], v0 in [0.02, 0.3]
C20_Inside(x) ==
    /\ 100 <= x[1] /\ x[1] <= 500
    /\ 2 <= x[2] /\ x[2] <= 20
    /\ -90 <= x[3] /\ x[3] <= -30
    /\ 2 <= x[4] /\ x[4] <= 30
\* C20: on both paths of the calibration the four parameters the quotes are
\* priced with lie inside their bounds, and so does the initial guess.
C20_ParametersWithinBounds ==
    /\ C20_Inside(initial_guess)
    /\ (params /= <<>>) => C20_Inside(params)
    /\ (pricedWith /= <<>>) => C20_Inside(pricedWith)

\* C20's case: a pass on the success path has priced and written a quote with
\* an optimizer result lying on its bounds
C20_Witness ==
    /\ pc = "done"
    /\ result.success
    /\ pricedWith = result.x
    /\ pricedWith[1] = 100 /\ pricedWith[4] = 30
    /\ db /= <<>>

====
